---- MODULE Spec2Model ----
(***************************************************************************)
(* Prop-firm risk governance: PropFirmDrawDown (trailing drawdown          *)
(* analyzer), DailyLossLimitMixin (intraday loss governor),                *)
(* EODPositionCloserMixin (session close scheduler),                       *)
(* ConsistencyAnalyzer (daily profit concentration) and MaxContractsSizer  *)
(* (position cap).                                                         *)
(*                                                                         *)
(* Dollar amounts are modelled as integers.  A Python Optional is a set    *)
(* with at most one element: None is {} and a value v is {v}.              *)
(***************************************************************************)
EXTENDS Integers, Sequences, FiniteSets, TLC

(***************************************************************************)
(* Bounds                                                                  *)
(***************************************************************************)
\* largest account value the host reports
MaxValue == 2
\* number of bars the host feeds to the analyzer
MaxBars == 3
\* number of bars the host feeds to the strategy
MaxStrategyBars == 2
\* largest account value the broker reports to the strategy
MaxStrategyValue == 1

\* number of calendar dates of a run of the consistency analyzer
MaxDays == 3
\* number of trade notifications of a run of the consistency analyzer
MaxTrades == 3
\* largest net profit and largest net loss of one trade
MaxPnl == 2
MaxLoss == 1
\* orders sized by the sizer that the broker may hold unexecuted at once
MaxPending == 2
\* orders a strategy sends through the sizer in a run
MaxSized == 4

Values == 0..MaxValue
StrategyValues == 0..MaxStrategyValue
\* cerebro.broker.setcash(...): the account starts at the top of the range
StartingCash == MaxStrategyValue

None == {}
Some(v) == {v}
Get(o) == CHOOSE v \in o : TRUE

Max(a, b) == IF a >= b THEN a ELSE b

\* float('-inf'): below every account value, never used in arithmetic
NegInf == -1000

(***************************************************************************)
(* Parameter domains of PropFirmDrawDown                                   *)
(***************************************************************************)
MaxDrawdownParams == {0, 1}
TrailingModes == {"intraday", "eod"}
TrailStopParams == {None, Some(0), Some(1)}
StartingBalanceParams == {None, Some(1)}
FundParams == {None, Some(TRUE)}

PropFirmParams ==
    [max_drawdown : MaxDrawdownParams,
     trailing_mode : TrailingModes,
     trail_stop_threshold : TrailStopParams,
     starting_balance : StartingBalanceParams,
     fund : FundParams]

VARIABLES
    \* ---- PropFirmDrawDown ----
    p,                  \* self.p
    broker_fundmode,    \* self.strategy.broker.fundmode
    fundmode,           \* self._fundmode
    current_value,      \* self._current_value
    hwm,                \* self._hwm
    trailing_frozen,    \* self._trailing_frozen
    frozen_hwm,         \* self._frozen_hwm
    starting_balance,   \* self._starting_balance
    pf_prev_date,       \* self._prev_date
    trail_target,       \* self._trail_target
    rets,               \* self.rets
    pf_pc,              \* where the host is: created, idle, notified, stopped
    pf_clock,           \* self.strategy.datetime: [date, len]
    \* ---- DailyLossLimitMixin + EODPositionCloserMixin in one strategy ----
    sp,                 \* self.p of the strategy
    day_start_value,    \* self._day_start_value
    trading_blocked,    \* self._trading_blocked
    bypass_block,       \* self._bypass_block
    prev_date,          \* self._prev_date
    eod_timer,          \* self._eod_timer
    broker_value,       \* self.broker.getvalue()
    position,           \* self.broker.getposition(data).size, per data
    orders_open,        \* self.broker.get_orders_open()
    cmds,               \* the calls made by the handler that ran last
    ret,                \* what the last buy()/sell()/close() call returned
    last,               \* the handler that ran last, with its arguments
    s_pc,               \* where the host is: created, started, bar, notified,
                        \* post (next() has run), raised (next() was left
                        \* by an exception)
    s_clock,            \* self.datetime: the bar's date, the previous bar's
                        \* date, the number of bars, whether the session's
                        \* timer has fired, and whether trading was blocked
                        \* when the previous bar ended
    \* ---- two PropFirmDrawDown analyzers fed by the same run ----
    mon,                \* the analyzer of each trailing mode: its attributes
    mon_pc,             \* where the host is: created, idle, notified, stopped
    mon_clock,          \* self.strategy.datetime: [date, len], with the
                        \* value and fundvalue of the run's first snapshot
    \* ---- ConsistencyAnalyzer ----
    ca_p,               \* self.p
    daily_pnl,          \* self._daily_pnl: the dict's items in insertion order
    ca_rets,            \* self.rets
    ca_last,            \* the callback that ran last, with the trade it got
    ca_pc,              \* where the host is: created, running, stopped
    ca_clock,           \* self.strategy.datetime.date(0), the number of trade
                        \* notifications, and the number and the net P&L of
                        \* the closed trades among them
    \* ---- MaxContractsSizer ----
    mc_p,               \* self.p
    mc_position,        \* self.strategy.getposition(data).size, per data
    mc_pending,         \* orders sized by the sizer, not yet executed
    mc_last             \* the last step: the call of _getsizing with what it
                        \* returned, or the execution of an order; with the
                        \* number of calls so far

pfvars == <<p, broker_fundmode, fundmode, current_value, hwm, trailing_frozen,
            frozen_hwm, starting_balance, pf_prev_date, trail_target, rets,
            pf_pc, pf_clock>>

svars == <<sp, day_start_value, trading_blocked, bypass_block, prev_date,
           eod_timer, broker_value, position, orders_open, cmds, ret, last,
           s_pc, s_clock>>

monvars == <<mon, mon_pc, mon_clock>>

cavars == <<ca_p, daily_pnl, ca_rets, ca_last, ca_pc, ca_clock>>

mcvars == <<mc_p, mc_position, mc_pending, mc_last>>

vars == <<pfvars, svars, monvars, cavars, mcvars>>

\* what the callbacks of one component leave alone: the other components
pf_others == <<svars, monvars, cavars, mcvars>>
s_others == <<pfvars, monvars, cavars, mcvars>>
mon_others == <<pfvars, svars, cavars, mcvars>>
ca_others == <<pfvars, svars, monvars, mcvars>>
mc_others == <<pfvars, svars, monvars, cavars>>

(***************************************************************************)
(* PropFirmDrawDown                                                        *)
(***************************************************************************)
\* the result created with the mark of an analyzer that has seen no snapshot
create_analysis_hwm_unset ==
    [hwm |-> NegInf, current_value |-> 0, current_drawdown |-> 0,
     max_drawdown |-> 0, breached |-> FALSE, breach_count |-> 0,
     breaches |-> <<>>, trailing_frozen |-> FALSE, frozen_hwm |-> None]

create_analysis ==
    [hwm |-> 0, current_value |-> 0, current_drawdown |-> 0,
     max_drawdown |-> 0, breached |-> FALSE, breach_count |-> 0,
     breaches |-> <<>>, trailing_frozen |-> FALSE, frozen_hwm |-> None]

\* the trail target computed from a starting balance and the threshold param
TrailTarget(sb, thr) ==
    IF sb # None /\ thr # None THEN Some(Get(sb) + Get(thr)) ELSE None

PF_Init ==
    /\ p \in PropFirmParams
    /\ broker_fundmode \in BOOLEAN
    /\ fundmode = FALSE
    /\ current_value = 0
    /\ hwm = NegInf
    /\ trailing_frozen = FALSE
    /\ frozen_hwm = None
    /\ starting_balance = None
    /\ pf_prev_date = None
    /\ trail_target = None
    /\ rets = create_analysis
    /\ pf_pc = "created"
    /\ pf_clock = [date |-> 1, len |-> 0]

PropFirmDrawDown_start ==
    /\ pf_pc = "created"
    /\ fundmode' = (IF p.fund = None THEN broker_fundmode ELSE Get(p.fund))
    /\ current_value' = 0
    /\ hwm' = NegInf
    /\ trailing_frozen' = FALSE
    /\ frozen_hwm' = None
    /\ starting_balance' = p.starting_balance
    /\ pf_prev_date' = None
    /\ trail_target' = TrailTarget(p.starting_balance, p.trail_stop_threshold)
    /\ pf_pc' = "idle"
    /\ UNCHANGED <<p, broker_fundmode, rets, pf_clock>>
    /\ UNCHANGED pf_others

\* the host moves to the next bar and notifies cash/value/fund
notify_fund(value, fundvalue, date) ==
    /\ pf_pc = "idle"
    /\ pf_clock.len < MaxBars
    /\ pf_clock' = [date |-> date, len |-> pf_clock.len + 1]
    /\ LET cv == IF ~fundmode THEN value ELSE fundvalue
       IN /\ current_value' = cv
          /\ IF starting_balance = None
             THEN /\ starting_balance' = Some(cv)
                  /\ trail_target' =
                        (IF p.trail_stop_threshold # None
                         THEN Some(cv + Get(p.trail_stop_threshold))
                         ELSE trail_target)
             ELSE UNCHANGED <<starting_balance, trail_target>>
          /\ hwm' = (IF hwm = NegInf THEN cv ELSE hwm)
    /\ pf_pc' = "notified"
    /\ UNCHANGED <<p, broker_fundmode, fundmode, trailing_frozen, frozen_hwm,
                   pf_prev_date, rets>>
    /\ UNCHANGED pf_others

PropFirmDrawDown_notify_fund ==
    \E value \in Values, fundvalue \in Values,
       date \in {pf_clock.date, pf_clock.date + 1} :
        notify_fund(value, fundvalue, date)

\* _update_hwm freezing the mark at the actual peak
update_hwm_freeze_at_peak(h, frozen, fh, cv, target) ==
    IF frozen
    THEN [hwm |-> h, trailing_frozen |-> frozen, frozen_hwm |-> fh]
    ELSE LET h1 == IF cv > h THEN cv ELSE h
         IN IF target # None /\ cv >= Get(target) /\ ~frozen
            THEN [hwm |-> h1, trailing_frozen |-> TRUE, frozen_hwm |-> Some(h1)]
            ELSE [hwm |-> h1, trailing_frozen |-> frozen, frozen_hwm |-> fh]

\* _update_hwm without its early return for the frozen state
update_hwm_no_return(h, frozen, fh, cv, target) ==
    LET h1 == IF cv > h THEN cv ELSE h
    IN IF target # None /\ cv >= Get(target) /\ ~frozen
       THEN [hwm |-> Get(target), trailing_frozen |-> TRUE,
             frozen_hwm |-> target]
       ELSE [hwm |-> h1, trailing_frozen |-> frozen, frozen_hwm |-> fh]

\* _update_hwm as a function of the fields it reads; yields the fields it writes
update_hwm(h, frozen, fh, cv, target) ==
    IF frozen
    THEN [hwm |-> h, trailing_frozen |-> frozen, frozen_hwm |-> fh]
    ELSE LET h1 == IF cv > h THEN cv ELSE h
         IN IF target # None /\ cv >= Get(target) /\ ~frozen
            THEN [hwm |-> Get(target), trailing_frozen |-> TRUE,
                  frozen_hwm |-> target]
            ELSE [hwm |-> h1, trailing_frozen |-> frozen, frozen_hwm |-> fh]

\* an update attempted at a bar of the same date as well
update_every_bar ==
    update_hwm(hwm, trailing_frozen, frozen_hwm, current_value, trail_target)

\* the state of the three fields when no update is attempted
no_update == [hwm |-> hwm, trailing_frozen |-> trailing_frozen,
              frozen_hwm |-> frozen_hwm]

\* the drawdown without the clamp at zero
drawdown_unclamped(h, cv) == h - cv

\* current_dd = max(0.0, self._hwm - self._current_value)
drawdown(h, cv) == Max(0, h - cv)

\* the largest drawdown overwritten by the current one
new_max_drawdown_current(old, current_dd) == current_dd

\* the largest drawdown replaced by the smaller of the two
new_max_drawdown_min(old, current_dd) ==
    IF old <= current_dd THEN old ELSE current_dd

\* r.max_drawdown = max(r.max_drawdown, current_dd)
new_max_drawdown(old, current_dd) == Max(old, current_dd)

\* the breach check appending a record at every bar over the limit
breach_check_every_bar(r, current_dd, cv, h, dt) ==
    IF current_dd > p.max_drawdown
    THEN LET bs == Append(r.breaches,
                          [datetime |-> dt, value |-> cv,
                           drawdown |-> current_dd, hwm |-> h])
         IN [r EXCEPT !.breaches = bs, !.breach_count = Len(bs),
                      !.breached = TRUE]
    ELSE r

\* the breach check with breached following the current bar only
breach_check_current_bar(r, current_dd, cv, h, dt) ==
    IF current_dd > p.max_drawdown
    THEN LET app == ~r.breached
                    \/ current_dd > r.breaches[Len(r.breaches)].drawdown
             bs == IF app
                   THEN Append(r.breaches,
                               [datetime |-> dt, value |-> cv,
                                drawdown |-> current_dd, hwm |-> h])
                   ELSE r.breaches
         IN [r EXCEPT !.breaches = bs,
                      !.breach_count = IF app THEN Len(bs) ELSE @,
                      !.breached = TRUE]
    ELSE [r EXCEPT !.breached = FALSE]

\* the breach check overwriting the last record with a new worst point
breach_check_overwrite_last(r, current_dd, cv, h, dt) ==
    IF current_dd > p.max_drawdown
    THEN LET app == ~r.breached
                    \/ current_dd > r.breaches[Len(r.breaches)].drawdown
             rec == [datetime |-> dt, value |-> cv,
                     drawdown |-> current_dd, hwm |-> h]
             bs == IF ~app THEN r.breaches
                   ELSE IF r.breaches = <<>> THEN <<rec>>
                   ELSE [r.breaches EXCEPT ![Len(r.breaches)] = rec]
         IN [r EXCEPT !.breaches = bs,
                      !.breach_count = Len(bs),
                      !.breached = TRUE]
    ELSE r

\* the breach check taking a drawdown equal to the limit for a breach
breach_check_at_limit(r, current_dd, cv, h, dt) ==
    IF current_dd >= p.max_drawdown
    THEN LET app == ~r.breached
                    \/ current_dd > r.breaches[Len(r.breaches)].drawdown
             bs == IF app
                   THEN Append(r.breaches,
                               [datetime |-> dt, value |-> cv,
                                drawdown |-> current_dd, hwm |-> h])
                   ELSE r.breaches
         IN [r EXCEPT !.breaches = bs,
                      !.breach_count = IF app THEN Len(bs) ELSE @,
                      !.breached = TRUE]
    ELSE r

\* the breach check recording the first breach only
breach_check_first_only(r, current_dd, cv, h, dt) ==
    IF current_dd > p.max_drawdown
    THEN LET app == ~r.breached
             bs == IF app
                   THEN Append(r.breaches,
                               [datetime |-> dt, value |-> cv,
                                drawdown |-> current_dd, hwm |-> h])
                   ELSE r.breaches
         IN [r EXCEPT !.breaches = bs,
                      !.breach_count = IF app THEN Len(bs) ELSE @,
                      !.breached = TRUE]
    ELSE r

\* the breach check at the end of next()
breach_check(r, current_dd, cv, h, dt) ==
    IF current_dd > p.max_drawdown
    THEN LET app == ~r.breached
                    \/ current_dd > r.breaches[Len(r.breaches)].drawdown
             bs == IF app
                   THEN Append(r.breaches,
                               [datetime |-> dt, value |-> cv,
                                drawdown |-> current_dd, hwm |-> h])
                   ELSE r.breaches
         IN [r EXCEPT !.breaches = bs,
                      !.breach_count = IF app THEN Len(bs) ELSE @,
                      !.breached = TRUE]
    ELSE r

PropFirmDrawDown_next ==
    /\ pf_pc = "notified"
    /\ pf_pc' = "idle"
    /\ IF hwm = NegInf
       THEN UNCHANGED <<hwm, trailing_frozen, frozen_hwm, pf_prev_date, rets>>
       ELSE LET cur_date == pf_clock.date
                u == IF p.trailing_mode = "intraday"
                     THEN update_hwm(hwm, trailing_frozen, frozen_hwm,
                                     current_value, trail_target)
                     ELSE IF p.trailing_mode = "eod"
                               /\ pf_prev_date # None
                               /\ cur_date # Get(pf_prev_date)
                          THEN update_hwm(hwm, trailing_frozen, frozen_hwm,
                                          current_value, trail_target)
                          ELSE no_update
                current_dd == drawdown(u.hwm, current_value)
                r1 == [rets EXCEPT
                         !.hwm = u.hwm,
                         !.current_value = current_value,
                         !.current_drawdown = current_dd,
                         !.max_drawdown = new_max_drawdown(@, current_dd),
                         !.trailing_frozen = u.trailing_frozen,
                         !.frozen_hwm = u.frozen_hwm]
            IN /\ hwm' = u.hwm
               /\ trailing_frozen' = u.trailing_frozen
               /\ frozen_hwm' = u.frozen_hwm
               /\ pf_prev_date' = (IF p.trailing_mode = "eod"
                                   THEN Some(cur_date) ELSE pf_prev_date)
               /\ rets' = breach_check(r1, current_dd, current_value, u.hwm,
                                       <<pf_clock.date, pf_clock.len>>)
    /\ UNCHANGED <<p, broker_fundmode, fundmode, current_value,
                   starting_balance, trail_target, pf_clock>>
    /\ UNCHANGED pf_others

PropFirmDrawDown_stop ==
    /\ pf_pc = "idle"
    /\ pf_pc' = "stopped"
    /\ IF p.trailing_mode = "eod"
       THEN LET u == update_hwm(hwm, trailing_frozen, frozen_hwm,
                                current_value, trail_target)
                current_dd == drawdown(u.hwm, current_value)
            IN /\ hwm' = u.hwm
               /\ trailing_frozen' = u.trailing_frozen
               /\ frozen_hwm' = u.frozen_hwm
               /\ rets' = (IF u.hwm # NegInf
                           THEN [rets EXCEPT
                                   !.current_drawdown = current_dd,
                                   !.max_drawdown =
                                       new_max_drawdown(@, current_dd),
                                   !.hwm = u.hwm]
                           ELSE rets)
       ELSE UNCHANGED <<hwm, trailing_frozen, frozen_hwm, rets>>
    /\ UNCHANGED <<p, broker_fundmode, fundmode, current_value,
                   starting_balance, pf_prev_date, trail_target, pf_clock>>
    /\ UNCHANGED pf_others

PF_Next ==
    \/ PropFirmDrawDown_start
    \/ PropFirmDrawDown_notify_fund
    \/ PropFirmDrawDown_next
    \/ PropFirmDrawDown_stop

(***************************************************************************)
(* Two PropFirmDrawDown analyzers added to the same cerebro run, one per    *)
(* trailing mode, with the same params p otherwise (p.trailing_mode is not  *)
(* read here).  Each callback is PropFirmDrawDown's, as a function of the   *)
(* analyzer's attributes.                                                  *)
(***************************************************************************)
\* the attributes of an analyzer after construction
Monitor_created ==
    [fundmode |-> FALSE, current_value |-> 0, hwm |-> NegInf,
     trailing_frozen |-> FALSE, frozen_hwm |-> None,
     starting_balance |-> None, prev_date |-> None, trail_target |-> None,
     rets |-> create_analysis]

Monitor_start(m) ==
    [m EXCEPT
       !.fundmode = (IF p.fund = None THEN broker_fundmode ELSE Get(p.fund)),
       !.current_value = 0,
       !.hwm = NegInf,
       !.trailing_frozen = FALSE,
       !.frozen_hwm = None,
       !.starting_balance = p.starting_balance,
       !.prev_date = None,
       !.trail_target = TrailTarget(p.starting_balance, p.trail_stop_threshold)]

Monitor_notify_fund(m, value, fundvalue) ==
    LET cv == IF ~m.fundmode THEN value ELSE fundvalue
        auto == m.starting_balance = None
    IN [m EXCEPT
          !.current_value = cv,
          !.starting_balance = (IF auto THEN Some(cv) ELSE @),
          !.trail_target = (IF auto /\ p.trail_stop_threshold # None
                            THEN Some(cv + Get(p.trail_stop_threshold))
                            ELSE @),
          !.hwm = (IF @ = NegInf THEN cv ELSE @)]

\* next() with the two trailing modes taken for each other
Monitor_next_modes_swapped(m, mode, cur_date, len) ==
    IF m.hwm = NegInf
    THEN m
    ELSE LET upd == update_hwm(m.hwm, m.trailing_frozen, m.frozen_hwm,
                               m.current_value, m.trail_target)
             keep == [hwm |-> m.hwm, trailing_frozen |-> m.trailing_frozen,
                      frozen_hwm |-> m.frozen_hwm]
             u == IF mode = "eod"
                  THEN upd
                  ELSE IF mode = "intraday"
                            /\ m.prev_date # None
                            /\ cur_date # Get(m.prev_date)
                       THEN upd
                       ELSE keep
             current_dd == drawdown(u.hwm, m.current_value)
             r1 == [m.rets EXCEPT
                      !.hwm = u.hwm,
                      !.current_value = m.current_value,
                      !.current_drawdown = current_dd,
                      !.max_drawdown = new_max_drawdown(@, current_dd),
                      !.trailing_frozen = u.trailing_frozen,
                      !.frozen_hwm = u.frozen_hwm]
         IN [m EXCEPT
               !.hwm = u.hwm,
               !.trailing_frozen = u.trailing_frozen,
               !.frozen_hwm = u.frozen_hwm,
               !.prev_date = (IF mode = "intraday" THEN Some(cur_date) ELSE @),
               !.rets = breach_check(r1, current_dd, m.current_value, u.hwm,
                                     <<cur_date, len>>)]

Monitor_next(m, mode, cur_date, len) ==
    IF m.hwm = NegInf
    THEN m
    ELSE LET upd == update_hwm(m.hwm, m.trailing_frozen, m.frozen_hwm,
                               m.current_value, m.trail_target)
             keep == [hwm |-> m.hwm, trailing_frozen |-> m.trailing_frozen,
                      frozen_hwm |-> m.frozen_hwm]
             u == IF mode = "intraday"
                  THEN upd
                  ELSE IF mode = "eod"
                            /\ m.prev_date # None
                            /\ cur_date # Get(m.prev_date)
                       THEN upd
                       ELSE keep
             current_dd == drawdown(u.hwm, m.current_value)
             r1 == [m.rets EXCEPT
                      !.hwm = u.hwm,
                      !.current_value = m.current_value,
                      !.current_drawdown = current_dd,
                      !.max_drawdown = new_max_drawdown(@, current_dd),
                      !.trailing_frozen = u.trailing_frozen,
                      !.frozen_hwm = u.frozen_hwm]
         IN [m EXCEPT
               !.hwm = u.hwm,
               !.trailing_frozen = u.trailing_frozen,
               !.frozen_hwm = u.frozen_hwm,
               !.prev_date = (IF mode = "eod" THEN Some(cur_date) ELSE @),
               !.rets = breach_check(r1, current_dd, m.current_value, u.hwm,
                                     <<cur_date, len>>)]

Monitor_stop(m, mode) ==
    IF mode = "eod"
    THEN LET u == update_hwm(m.hwm, m.trailing_frozen, m.frozen_hwm,
                             m.current_value, m.trail_target)
             current_dd == drawdown(u.hwm, m.current_value)
         IN [m EXCEPT
               !.hwm = u.hwm,
               !.trailing_frozen = u.trailing_frozen,
               !.frozen_hwm = u.frozen_hwm,
               !.rets = (IF u.hwm # NegInf
                         THEN [@ EXCEPT
                                 !.current_drawdown = current_dd,
                                 !.max_drawdown =
                                     new_max_drawdown(@, current_dd),
                                 !.hwm = u.hwm]
                         ELSE @)]
    ELSE m

Mon_Init ==
    /\ mon = [mode \in TrailingModes |-> Monitor_created]
    /\ mon_pc = "created"
    /\ mon_clock = [date |-> 1, len |-> 0, first |-> None]

Monitors_start ==
    /\ mon_pc = "created"
    /\ mon_pc' = "idle"
    /\ mon' = [mode \in TrailingModes |-> Monitor_start(mon[mode])]
    /\ UNCHANGED mon_clock
    /\ UNCHANGED mon_others

\* the host moves to the next bar and notifies cash/value/fund to both
Monitors_notify_fund ==
    \E value \in Values, fundvalue \in Values,
       date \in {mon_clock.date, mon_clock.date + 1} :
        /\ mon_pc = "idle"
        /\ mon_clock.len < MaxBars
        /\ mon_pc' = "notified"
        /\ mon_clock' =
              [date |-> date, len |-> mon_clock.len + 1,
               first |-> IF mon_clock.first = None
                         THEN Some([value |-> value, fundvalue |-> fundvalue])
                         ELSE mon_clock.first]
        /\ mon' = [mode \in TrailingModes |->
                      Monitor_notify_fund(mon[mode], value, fundvalue)]
        /\ UNCHANGED mon_others

Monitors_next ==
    /\ mon_pc = "notified"
    /\ mon_pc' = "idle"
    /\ mon' = [mode \in TrailingModes |->
                  Monitor_next(mon[mode], mode, mon_clock.date, mon_clock.len)]
    /\ UNCHANGED mon_clock
    /\ UNCHANGED mon_others

Monitors_stop ==
    /\ mon_pc = "idle"
    /\ mon_pc' = "stopped"
    /\ mon' = [mode \in TrailingModes |-> Monitor_stop(mon[mode], mode)]
    /\ UNCHANGED mon_clock
    /\ UNCHANGED mon_others

Mon_Next ==
    \/ Monitors_start
    \/ Monitors_notify_fund
    \/ Monitors_next
    \/ Monitors_stop

(***************************************************************************)
(* DailyLossLimitMixin and EODPositionCloserMixin, composed as             *)
(* class ComboStrategy(DailyLossLimitMixin, EODPositionCloserMixin,        *)
(*                     bt.Strategy)                                        *)
(***************************************************************************)
\* the data feeds of the strategy, in the order of self.datas
datas == <<"data0", "data1">>
Datas == {datas[i] : i \in 1..Len(datas)}

\* open orders a strategy's own trading logic may have pending at once
MaxOrders == 1

DailyLossLimitParams == {0, 1}

StrategyParams ==
    [daily_loss_limit : DailyLossLimitParams,
     cancel_open_on_breach : BOOLEAN,
     cancel_open_orders : BOOLEAN]

\* the timers the host may fire: the closer's own and one added by the strategy
Timers == {"eod_timer", "other_timer"}

Abs(n) == IF n >= 0 THEN n ELSE -n

\* a call made by a handler: cancel(order), close(data), or an order that
\* reached bt.Strategy.buy / bt.Strategy.sell
Cmd(op, data, size) == [op |-> op, data |-> data, size |-> size]

\* the broker-side effect of a handler: open orders, calls made, and what its
\* last buy / sell / close call returned (None when it made none)
Eff(orders, c, r) == [orders |-> orders, cmds |-> c, ret |-> r]

\* bt.Strategy.buy / bt.Strategy.sell: the order is submitted to the broker
Strategy_submit(b, op, data, size) ==
    LET order == [data |-> data, size |-> IF op = "buy" THEN size ELSE -size]
    IN Eff(Append(b.orders, order), Append(b.cmds, Cmd(op, data, size)),
           Some(order))

\* the guard with the bypass flag read the wrong way round
intercepted_inverted(blocked, bypass) == blocked /\ bypass

\* the guard of DailyLossLimitMixin.buy / sell
intercepted(blocked, bypass) == blocked /\ ~bypass

buy(b, blocked, bypass, data, size) ==
    IF intercepted(blocked, bypass)
    THEN [b EXCEPT !.ret = None]
    ELSE Strategy_submit(b, "buy", data, size)

sell(b, blocked, bypass, data, size) ==
    IF intercepted(blocked, bypass)
    THEN [b EXCEPT !.ret = None]
    ELSE Strategy_submit(b, "sell", data, size)

\* bt.Strategy.close: an opposite order of the position's size, through the
\* strategy's own buy / sell
Strategy_close(b, blocked, bypass, data) ==
    LET possize == position[data]
        b1 == [b EXCEPT !.cmds = Append(@, Cmd("close", data, Abs(possize)))]
    IN IF possize > 0 THEN sell(b1, blocked, bypass, data, Abs(possize))
       ELSE IF possize < 0 THEN buy(b1, blocked, bypass, data, Abs(possize))
       ELSE [b1 EXCEPT !.ret = None]

\* for order in self.broker.get_orders_open(safe=True): self.cancel(order)
RECURSIVE cancel_loop(_, _, _)
cancel_loop(open, b, i) ==
    IF i > Len(open) THEN b
    ELSE cancel_loop(open,
                     Eff(<<>>,
                         Append(b.cmds, Cmd("cancel", open[i].data, open[i].size)),
                         b.ret),
                     i + 1)

\* the open orders left alone
cancel_no_order(b) == b

cancel_all_open_orders(b) ==
    IF b.orders = <<>> THEN b
    ELSE LET c == cancel_loop(b.orders, b, 1) IN Eff(<<>>, c.cmds, c.ret)

\* every data feed closed, flat or not
has_position_any(data) == TRUE

\* the condition under which a loop closes a data feed's position
has_position(data) == position[data] # 0

\* for data in self.datas: if pos.size != 0: self.close(data=data)
RECURSIVE close_loop(_, _, _, _)
close_loop(b, blocked, bypass, i) ==
    IF i > Len(datas) THEN b
    ELSE close_loop(IF has_position(datas[i])
                    THEN Strategy_close(b, blocked, bypass, datas[i])
                    ELSE b,
                    blocked, bypass, i + 1)

\* the flatten loop run without raising the bypass flag
flatten_without_bypass(b, blocked) == close_loop(b, blocked, FALSE, 1)

\* DailyLossLimitMixin._flatten_all_positions: _bypass_block is True in the loop
flatten_all_positions(b, blocked) == close_loop(b, blocked, TRUE, 1)

\* the loop of _flatten_all_positions left by an exception of its close() call
\* for datas[k]: the feeds before datas[k] are closed, the call for datas[k]
\* is made and submits nothing
RECURSIVE close_loop_raising(_, _, _, _)
close_loop_raising(b, blocked, i, k) ==
    IF i = k
    THEN [b EXCEPT !.cmds = Append(@, Cmd("close", datas[k],
                                          Abs(position[datas[k]])))]
    ELSE close_loop_raising(IF has_position(datas[i])
                            THEN Strategy_close(b, blocked, TRUE, datas[i])
                            ELSE b,
                            blocked, i + 1, k)

\* the flag left set when the loop is left by an exception
bypass_left_set == TRUE

\* finally: self._bypass_block = False
bypass_after_flatten == FALSE

\* EODPositionCloserMixin._close_all_positions
close_all_positions(b, blocked, bypass) ==
    LET b1 == IF sp.cancel_open_orders THEN cancel_all_open_orders(b) ELSE b
    IN close_loop(b1, blocked, bypass, 1)

\* the loss test with a strict comparison
limit_hit_strict(day_start, value, limit) == day_start - value > limit

\* the loss test of DailyLossLimitMixin.next
limit_hit(day_start, value, limit) == day_start - value >= limit

\* the date test that misses a change of date
new_trading_day_never(prev, cur_date) == prev # None /\ cur_date < Get(prev)

\* the date test that takes every bar after the first for a new day
new_trading_day_every_bar(prev, cur_date) == prev # None

\* the date test of DailyLossLimitMixin.notify_cashvalue
new_trading_day(prev, cur_date) == prev # None /\ cur_date # Get(prev)

S_Init ==
    /\ sp \in StrategyParams
    /\ day_start_value = 0
    /\ trading_blocked = FALSE
    /\ bypass_block = FALSE
    /\ prev_date = None
    /\ eod_timer = None
    /\ broker_value = StartingCash
    /\ position = [d \in Datas |-> 0]
    /\ orders_open = <<>>
    /\ cmds = <<>>
    /\ ret = None
    /\ last = [op |-> "init", data |-> "", size |-> 0]
    /\ s_pc = "created"
    /\ s_clock = [date |-> 1, prev |-> None, len |-> 0, timer_fired |-> FALSE,
                  was_blocked |-> FALSE]

Handler(op) == [op |-> op, data |-> "", size |-> 0]

\* DailyLossLimitMixin.start, then EODPositionCloserMixin.start through super()
Strategy_start ==
    /\ s_pc = "created"
    /\ day_start_value' = broker_value
    /\ trading_blocked' = FALSE
    /\ bypass_block' = FALSE
    /\ prev_date' = None
    /\ eod_timer' = Some("eod_timer")
    /\ cmds' = <<>>
    /\ ret' = None
    /\ last' = Handler("start")
    /\ s_pc' = "started"
    /\ UNCHANGED <<sp, broker_value, position, orders_open, s_clock>>
    /\ UNCHANGED s_others

\* the host is between bars after start() and after a bar's next() has returned
BetweenBars == {"started", "post"}

\* the orders of seq at the indexes not in S
RECURSIVE Keep(_, _, _)
Keep(seq, S, i) ==
    IF i > Len(seq) THEN <<>>
    ELSE (IF i \in S THEN <<>> ELSE <<seq[i]>>) \o Keep(seq, S, i + 1)

\* the signed size the orders of seq at the indexes in S add to data d
RECURSIVE FilledSize(_, _, _, _)
FilledSize(seq, S, d, i) ==
    IF i > Len(seq) THEN 0
    ELSE (IF i \in S /\ seq[i].data = d THEN seq[i].size ELSE 0)
         + FilledSize(seq, S, d, i + 1)

\* the host moves to the next bar: the broker executes some of the open orders
\* and marks the account to market
Host_next_bar(value, date, filled) ==
    /\ s_pc \in BetweenBars
    /\ s_clock.len < MaxStrategyBars
    /\ s_clock' = [date |-> date,
                   prev |-> IF s_clock.len = 0 THEN None ELSE Some(s_clock.date),
                   len |-> s_clock.len + 1,
                   timer_fired |-> IF date = s_clock.date
                                   THEN s_clock.timer_fired ELSE FALSE,
                   was_blocked |-> trading_blocked]
    /\ broker_value' = value
    /\ position' = [d \in Datas |->
                       position[d] + FilledSize(orders_open, filled, d, 1)]
    /\ orders_open' = Keep(orders_open, filled, 1)
    /\ cmds' = <<>>
    /\ ret' = None
    /\ last' = Handler("bar")
    /\ s_pc' = "bar"
    /\ UNCHANGED <<sp, day_start_value, trading_blocked, bypass_block,
                   prev_date, eod_timer>>
    /\ UNCHANGED s_others

Host_bar ==
    \E value \in StrategyValues, date \in {s_clock.date, s_clock.date + 1},
       filled \in SUBSET (1..Len(orders_open)) :
        Host_next_bar(value, date, filled)

\* the phases of next() in which the strategy's own trading logic runs: before
\* and after its call of super().next()
InNext == {"notified", "post"}

\* EODPositionCloserMixin.notify_timer
notify_timer(timer) ==
    /\ s_pc = "bar"
    /\ timer = "eod_timer" => ~s_clock.timer_fired
    /\ s_clock' = [s_clock EXCEPT !.timer_fired =
                                    IF timer = "eod_timer" THEN TRUE ELSE @]
    /\ LET b0 == Eff(orders_open, <<>>, None)
           b == IF Some(timer) = eod_timer
                THEN close_all_positions(b0, trading_blocked, bypass_block)
                ELSE b0
       IN /\ orders_open' = b.orders
          /\ cmds' = b.cmds
          /\ ret' = b.ret
    /\ last' = [op |-> "notify_timer", data |-> timer, size |-> 0]
    /\ UNCHANGED <<sp, day_start_value, trading_blocked, bypass_block,
                   prev_date, eod_timer, broker_value, position, s_pc>>
    /\ UNCHANGED s_others

EODPositionCloserMixin_notify_timer == \E timer \in Timers : notify_timer(timer)

\* notify_cashvalue clearing the block of a new date without taking the
\* bar's value as the new day_start_value
DailyLossLimitMixin_notify_cashvalue_keep_start ==
    /\ s_pc = "bar"
    /\ LET cur_date == s_clock.date
       IN /\ IF new_trading_day(prev_date, cur_date)
             THEN trading_blocked' = FALSE
             ELSE UNCHANGED trading_blocked
          /\ prev_date' = Some(cur_date)
    /\ cmds' = <<>>
    /\ ret' = None
    /\ last' = Handler("notify_cashvalue")
    /\ s_pc' = "notified"
    /\ UNCHANGED <<sp, day_start_value, bypass_block, eod_timer, broker_value,
                   position, orders_open, s_clock>>
    /\ UNCHANGED s_others

\* DailyLossLimitMixin.notify_cashvalue, called by the host before next()
DailyLossLimitMixin_notify_cashvalue ==
    /\ s_pc = "bar"
    /\ LET cur_date == s_clock.date
           value == broker_value
       IN /\ IF new_trading_day(prev_date, cur_date)
             THEN /\ day_start_value' = value
                  /\ trading_blocked' = FALSE
             ELSE UNCHANGED <<day_start_value, trading_blocked>>
          /\ prev_date' = Some(cur_date)
    /\ cmds' = <<>>
    /\ ret' = None
    /\ last' = Handler("notify_cashvalue")
    /\ s_pc' = "notified"
    /\ UNCHANGED <<sp, bypass_block, eod_timer, broker_value, position,
                   orders_open, s_clock>>
    /\ UNCHANGED s_others

\* next() with the loss test made while trading is blocked as well
DailyLossLimitMixin_next_while_blocked ==
    /\ s_pc = "notified"
    /\ LET b0 == Eff(orders_open, <<>>, None)
           hit == limit_hit(day_start_value, broker_value, sp.daily_loss_limit)
           b1 == IF hit /\ sp.cancel_open_on_breach
                 THEN cancel_all_open_orders(b0) ELSE b0
           b == IF hit THEN flatten_all_positions(b1, TRUE) ELSE b1
       IN /\ trading_blocked' = (trading_blocked \/ hit)
          /\ bypass_block' = (IF hit THEN FALSE ELSE bypass_block)
          /\ orders_open' = b.orders
          /\ cmds' = b.cmds
          /\ ret' = b.ret
    /\ last' = Handler("next")
    /\ s_pc' = "post"
    /\ UNCHANGED <<sp, day_start_value, prev_date, eod_timer, broker_value,
                   position, s_clock>>
    /\ UNCHANGED s_others

\* DailyLossLimitMixin.next
DailyLossLimitMixin_next ==
    /\ s_pc = "notified"
    /\ LET b0 == Eff(orders_open, <<>>, None)
           hit == ~trading_blocked
                  /\ limit_hit(day_start_value, broker_value,
                               sp.daily_loss_limit)
           b1 == IF hit /\ sp.cancel_open_on_breach
                 THEN cancel_all_open_orders(b0) ELSE b0
           b == IF hit THEN flatten_all_positions(b1, TRUE) ELSE b1
       IN /\ trading_blocked' = (trading_blocked \/ hit)
          /\ bypass_block' = (IF hit THEN FALSE ELSE bypass_block)
          /\ orders_open' = b.orders
          /\ cmds' = b.cmds
          /\ ret' = b.ret
    /\ last' = Handler("next")
    /\ s_pc' = "post"
    /\ UNCHANGED <<sp, day_start_value, prev_date, eod_timer, broker_value,
                   position, s_clock>>
    /\ UNCHANGED s_others

\* DailyLossLimitMixin.next when a close() call of the flatten raises: the
\* block is set, the finally clause has run and the exception leaves next()
\* and, nothing in the strategy catching it, ends the run
next_raises(k) ==
    /\ s_pc = "notified"
    /\ ~trading_blocked
    /\ limit_hit(day_start_value, broker_value, sp.daily_loss_limit)
    /\ has_position(datas[k])
    /\ LET b0 == Eff(orders_open, <<>>, None)
           b1 == IF sp.cancel_open_on_breach
                 THEN cancel_all_open_orders(b0) ELSE b0
           b == close_loop_raising(b1, TRUE, 1, k)
       IN /\ orders_open' = b.orders
          /\ cmds' = b.cmds
          /\ ret' = b.ret
    /\ trading_blocked' = TRUE
    /\ bypass_block' = bypass_after_flatten
    /\ last' = [op |-> "next", data |-> "raised", size |-> k]
    /\ s_pc' = "raised"
    /\ UNCHANGED <<sp, day_start_value, prev_date, eod_timer, broker_value,
                   position, s_clock>>
    /\ UNCHANGED s_others

DailyLossLimitMixin_next_raises == \E k \in 1..Len(datas) : next_raises(k)

\* the strategy's own trading logic calls self.buy(data, size) / self.sell(...)
Strategy_order(op, data, size) ==
    /\ s_pc \in InNext
    /\ Len(orders_open) < MaxOrders
    /\ LET b0 == Eff(orders_open, <<>>, None)
           b == IF op = "buy"
                THEN buy(b0, trading_blocked, bypass_block, data, size)
                ELSE sell(b0, trading_blocked, bypass_block, data, size)
       IN /\ orders_open' = b.orders
          /\ cmds' = b.cmds
          /\ ret' = b.ret
    /\ last' = [op |-> op, data |-> data, size |-> size]
    /\ UNCHANGED <<sp, day_start_value, trading_blocked, bypass_block,
                   prev_date, eod_timer, broker_value, position, s_pc, s_clock>>
    /\ UNCHANGED s_others

Strategy_buy == \E data \in Datas : Strategy_order("buy", data, 1)

Strategy_sell == \E data \in Datas : Strategy_order("sell", data, 1)

S_Next ==
    \/ Strategy_start
    \/ Host_bar
    \/ EODPositionCloserMixin_notify_timer
    \/ DailyLossLimitMixin_notify_cashvalue
    \/ DailyLossLimitMixin_next
    \/ DailyLossLimitMixin_next_raises
    \/ Strategy_buy
    \/ Strategy_sell

(***************************************************************************)
(* ConsistencyAnalyzer.  _daily_pnl is a dict: its items are kept in        *)
(* insertion order, one per date.  A percentage 100.0 * pnl / net_pnl is    *)
(* kept as the exact fraction num / den.                                   *)
(***************************************************************************)
MaxDayPctParams == {0, 40, 100}

ConsistencyParams == [max_day_pct : MaxDayPctParams]

\* trade.pnlcomm of a notified trade
TradePnls == (0 - MaxLoss)..MaxPnl

\* the analysis set up as not consistent
CA_create_analysis_inconsistent(params) ==
    [daily_pnl |-> <<>>, net_pnl |-> 0, total_profit |-> 0, total_loss |-> 0,
     consistent |-> FALSE, max_day_pct |-> params.max_day_pct,
     best_day |-> None, violations |-> <<>>]

\* AutoOrderedDict set up by create_analysis
CA_create_analysis(params) ==
    [daily_pnl |-> <<>>, net_pnl |-> 0, total_profit |-> 0, total_loss |-> 0,
     consistent |-> TRUE, max_day_pct |-> params.max_day_pct,
     best_day |-> None, violations |-> <<>>]

\* the dates that are keys of a dict
Keys(d) == {d[i].date : i \in 1..Len(d)}

\* position of a key in the dict's items
IndexOf(d, date) == CHOOSE i \in 1..Len(d) : d[i].date = date

\* dict.get(date, 0.0)
DictGet(d, date) == IF date \in Keys(d) THEN d[IndexOf(d, date)].pnl ELSE 0

\* d[date] = pnl: an existing key keeps its place, a new key goes last
DictSet(d, date, pnl) ==
    IF date \in Keys(d)
    THEN [d EXCEPT ![IndexOf(d, date)].pnl = pnl]
    ELSE Append(d, [date |-> date, pnl |-> pnl])

\* the day's entry overwritten with the trade's P&L
add_trade_overwrite(d, cur_date, pnlcomm) == DictSet(d, cur_date, pnlcomm)

\* self._daily_pnl[cur_date] = prev + trade.pnlcomm
add_trade(d, cur_date, pnlcomm) ==
    DictSet(d, cur_date, DictGet(d, cur_date) + pnlcomm)

RECURSIVE SumIf(_, _, _)
\* sum(v for v in d.values() if sign * v > 0), all values when sign = 0
SumIf(d, sign, i) ==
    IF i > Len(d) THEN 0
    ELSE (IF sign = 0 \/ sign * d[i].pnl > 0 THEN d[i].pnl ELSE 0)
            + SumIf(d, sign, i + 1)

\* the net P&L taken as the sum of the profitable days only
net_pnl_profits_only(d) == SumIf(d, 1, 1)

\* r.net_pnl = sum(self._daily_pnl.values())
net_pnl(d) == SumIf(d, 0, 1)

\* r.total_profit
total_profit(d) == SumIf(d, 1, 1)

\* the losses summed as a magnitude
total_loss_magnitude(d) == 0 - SumIf(d, -1, 1)

\* r.total_loss
total_loss(d) == SumIf(d, -1, 1)

\* the share of the net P&L without the factor 100
day_pct_unscaled(pnl, net) == [num |-> pnl, den |-> net]

\* 100.0 * pnl / net_pnl
day_pct(pnl, net) == [num |-> 100 * pnl, den |-> net]

\* the threshold test letting a day take exactly max_day_pct through
exceeds_or_equal(pct, max_day_pct) == pct.num >= max_day_pct * pct.den

\* pct > self.p.max_day_pct, for a positive net P&L
exceeds(pct, max_day_pct) == pct.num > max_day_pct * pct.den

\* the first date taken as the best one
best_index_first(d) == 1

\* the most recent date taken as the best one
best_index_last(d) == Len(d)

\* max(self._daily_pnl, key=...): the first key, in iteration order, whose
\* value is maximal
best_index(d) ==
    CHOOSE i \in 1..Len(d) :
        /\ \A j \in 1..Len(d) : d[j].pnl <= d[i].pnl
        /\ \A j \in 1..(i - 1) : d[j].pnl < d[i].pnl

\* r.best_day
best_day(d, net) ==
    LET b == d[best_index(d)]
    IN [date |-> b.date, pnl |-> b.pnl,
        pct |-> IF net > 0 THEN day_pct(b.pnl, net)
                ELSE [num |-> 0, den |-> 1]]

RECURSIVE violations_from(_, _, _, _)
\* the loop over self._daily_pnl.items() building the violations list
violations_from(d, net, max_day_pct, i) ==
    IF i > Len(d) THEN <<>>
    ELSE LET pct == day_pct(d[i].pnl, net)
             rest == violations_from(d, net, max_day_pct, i + 1)
         IN IF d[i].pnl <= 0 THEN rest
            ELSE IF exceeds(pct, max_day_pct)
                 THEN <<[date |-> d[i].date, pnl |-> d[i].pnl, pct |-> pct]>>
                        \o rest
                 ELSE rest

CA_Init ==
    /\ ca_p \in ConsistencyParams
    /\ daily_pnl = <<>>
    /\ ca_rets = CA_create_analysis(ca_p)
    /\ ca_last = [op |-> "init", isclosed |-> FALSE, pnlcomm |-> 0]
    /\ ca_pc = "created"
    /\ ca_clock = [date |-> 1, trades |-> 0, closed |-> 0, closed_pnl |-> 0]

ConsistencyAnalyzer_start ==
    /\ ca_pc = "created"
    /\ ca_pc' = "running"
    /\ daily_pnl' = <<>>
    /\ ca_last' = [op |-> "start", isclosed |-> FALSE, pnlcomm |-> 0]
    /\ UNCHANGED <<ca_p, ca_rets, ca_clock>>
    /\ UNCHANGED ca_others

\* a trade is notified on a bar of the current date or of a later one
notify_trade(isclosed, pnlcomm, cur_date) ==
    /\ ca_pc = "running"
    /\ ca_clock.trades < MaxTrades
    /\ ca_clock' = [date |-> cur_date, trades |-> ca_clock.trades + 1,
                    closed |-> ca_clock.closed + (IF isclosed THEN 1 ELSE 0),
                    closed_pnl |-> ca_clock.closed_pnl
                                     + (IF isclosed THEN pnlcomm ELSE 0)]
    /\ ca_last' = [op |-> "notify_trade", isclosed |-> isclosed,
                   pnlcomm |-> pnlcomm]
    /\ daily_pnl' = (IF ~isclosed THEN daily_pnl
                     ELSE add_trade(daily_pnl, cur_date, pnlcomm))
    /\ UNCHANGED <<ca_p, ca_rets, ca_pc>>
    /\ UNCHANGED ca_others

ConsistencyAnalyzer_notify_trade ==
    \E isclosed \in BOOLEAN, pnlcomm \in TradePnls,
       cur_date \in ca_clock.date..MaxDays :
        notify_trade(isclosed, pnlcomm, cur_date)

ConsistencyAnalyzer_stop ==
    /\ ca_pc = "running"
    /\ ca_pc' = "stopped"
    /\ ca_last' = [op |-> "stop", isclosed |-> FALSE, pnlcomm |-> 0]
    /\ LET r0 == [ca_rets EXCEPT !.daily_pnl = daily_pnl]
       IN IF daily_pnl = <<>>
          THEN ca_rets' = r0
          ELSE LET net == net_pnl(daily_pnl)
                   r1 == [r0 EXCEPT
                            !.net_pnl = net,
                            !.total_profit = total_profit(daily_pnl),
                            !.total_loss = total_loss(daily_pnl),
                            !.best_day = Some(best_day(daily_pnl, net))]
                   violations ==
                       violations_from(daily_pnl, net, ca_p.max_day_pct, 1)
               IN ca_rets' =
                    (IF net > 0
                     THEN [r1 EXCEPT !.violations = violations,
                                     !.consistent = (Len(violations) = 0)]
                     ELSE [r1 EXCEPT !.consistent = TRUE])
    /\ UNCHANGED <<ca_p, daily_pnl, ca_clock>>
    /\ UNCHANGED ca_others

CA_Next ==
    \/ ConsistencyAnalyzer_start
    \/ ConsistencyAnalyzer_notify_trade
    \/ ConsistencyAnalyzer_stop

(***************************************************************************)
(* MaxContractsSizer, set with cerebro.addsizer.  The strategy's buy() and  *)
(* sell() ask the sizer for the size and hand a non-zero size to the broker *)
(* as an order, which the broker executes on a later bar.                   *)
(***************************************************************************)
MaxContractsParams == {1, 2}
StakeParams == {1, 3}

SizerParams == [max_contracts : MaxContractsParams, stake : StakeParams]

Min(a, b) == IF a <= b THEN a ELSE b

\* MaxContractsSizer._getsizing(comminfo, cash, data, isbuy), as a function of
\* the position of the data
getsizing(current, isbuy) ==
    LET max_c == mc_p.max_contracts
        desired == mc_p.stake
    IN IF isbuy
       THEN IF current >= max_c THEN 0
            ELSE Min(desired, max_c - current)
       ELSE IF current <= 0 - max_c THEN 0
            ELSE Min(desired, max_c + current)

MC_Init ==
    /\ mc_p \in SizerParams
    /\ mc_position = [d \in Datas |-> 0]
    /\ mc_pending = <<>>
    /\ mc_last = [op |-> "init", data |-> "", isbuy |-> FALSE, size |-> 0,
                  calls |-> 0]

\* self.buy(data=data) / self.sell(data=data) without a size: the sizer gives
\* the size, and an order of that size goes to the broker unless it is 0
Sized_order(data, isbuy) ==
    /\ mc_last.calls < MaxSized
    /\ Len(mc_pending) < MaxPending
    /\ LET size == getsizing(mc_position[data], isbuy)
       IN /\ mc_last' = [op |-> "getsizing", data |-> data, isbuy |-> isbuy,
                         size |-> size, calls |-> mc_last.calls + 1]
          /\ mc_pending' =
                (IF size # 0
                 THEN Append(mc_pending,
                             [data |-> data,
                              size |-> IF isbuy THEN size ELSE 0 - size])
                 ELSE mc_pending)
    /\ UNCHANGED <<mc_p, mc_position>>
    /\ UNCHANGED mc_others

Sized_buy == \E data \in Datas : Sized_order(data, TRUE)

Sized_sell == \E data \in Datas : Sized_order(data, FALSE)

\* the broker executes the oldest pending order
Broker_execute ==
    /\ mc_pending # <<>>
    /\ LET o == Head(mc_pending)
       IN /\ mc_position' = [mc_position EXCEPT ![o.data] = @ + o.size]
          /\ mc_last' = [op |-> "execute", data |-> o.data,
                         isbuy |-> o.size > 0, size |-> o.size,
                         calls |-> mc_last.calls]
    /\ mc_pending' = Tail(mc_pending)
    /\ UNCHANGED mc_p
    /\ UNCHANGED mc_others

MC_Next ==
    \/ Sized_buy
    \/ Sized_sell
    \/ Broker_execute

(***************************************************************************)
(* Specifications: each component runs with the other ones left as built   *)
(***************************************************************************)
PF_Built ==
    /\ p = [max_drawdown |-> 1, trailing_mode |-> "intraday",
            trail_stop_threshold |-> None, starting_balance |-> None,
            fund |-> None]
    /\ broker_fundmode = FALSE
    /\ PF_Init

S_Built ==
    /\ sp = [daily_loss_limit |-> 1, cancel_open_on_breach |-> TRUE,
             cancel_open_orders |-> TRUE]
    /\ S_Init

CA_Built ==
    /\ ca_p = [max_day_pct |-> 40]
    /\ CA_Init

MC_Built ==
    /\ mc_p = [max_contracts |-> 2, stake |-> 1]
    /\ MC_Init

InitPF == PF_Init /\ S_Built /\ Mon_Init /\ CA_Built /\ MC_Built

SpecPF == InitPF /\ [][PF_Next]_vars

InitS == S_Init /\ PF_Built /\ Mon_Init /\ CA_Built /\ MC_Built

SpecS == InitS /\ [][S_Next]_vars

\* the two analyzers share the params and the broker of the run; the single
\* analyzer is left as built
InitMon ==
    /\ p \in PropFirmParams
    /\ p.trailing_mode = "intraday"
    /\ broker_fundmode \in BOOLEAN
    /\ PF_Init
    /\ S_Built
    /\ Mon_Init
    /\ CA_Built
    /\ MC_Built

SpecMon == InitMon /\ [][Mon_Next]_vars

InitCA == CA_Init /\ PF_Built /\ S_Built /\ Mon_Init /\ MC_Built

SpecCA == InitCA /\ [][CA_Next]_vars

InitMC == MC_Init /\ PF_Built /\ S_Built /\ Mon_Init /\ CA_Built

SpecMC == InitMC /\ [][MC_Next]_vars

(***************************************************************************)
(* Properties of PropFirmDrawDown, checked under SpecPF                    *)
(***************************************************************************)
\* a step of next(): the host was notified and the bar is now processed
NextStep == pf_pc = "notified" /\ pf_pc' = "idle"

\* C1: a breach is never missed.  At every bar at which the drawdown computed
\* by next() is strictly greater than max_drawdown, the result after the bar
\* has breached = TRUE and a non-empty breaches list; and once breached is
\* TRUE it stays TRUE (with a non-empty list) after every later bar and after
\* stop().
C1_BreachNeverMissed ==
    [][/\ (NextStep /\ rets'.current_drawdown > p.max_drawdown)
            => (rets'.breached /\ rets'.breaches # <<>>)
       /\ rets.breached => (rets'.breached /\ rets'.breaches # <<>>)]_vars

\* C1 witness: the run has stopped, a breach was recorded at an earlier bar
\* and the last bar's drawdown is back within the limit
C1_Witness ==
    /\ pf_pc = "stopped"
    /\ rets.breached
    /\ rets.breaches # <<>>
    /\ rets.current_drawdown <= p.max_drawdown

\* C2: the freeze is irreversible.  Once the frozen flag is set it is never
\* cleared, and from then on the high-water mark keeps the value
\* starting_balance + trail_stop_threshold through every later notification,
\* bar and stop(), whatever the account value.
C2_FreezeIrreversible ==
    [][trailing_frozen =>
          /\ trailing_frozen'
          /\ hwm' = hwm
          /\ p.trail_stop_threshold # None /\ starting_balance # None
          /\ hwm = Get(starting_balance) + Get(p.trail_stop_threshold)
          /\ frozen_hwm' = frozen_hwm]_vars

\* C2 witness: the run has stopped with the mark frozen while the account value
\* stands above the frozen mark
C2_Witness ==
    /\ pf_pc = "stopped"
    /\ trailing_frozen
    /\ current_value > hwm

\* C9: in every result the reported current_drawdown equals
\* max(0, hwm - current_value) of the hwm and current_value reported with it,
\* and is never negative.
C9_DrawdownFormula ==
    /\ rets.current_drawdown = Max(0, rets.hwm - rets.current_value)
    /\ rets.current_drawdown >= 0

\* C9 witness: a result after stop() in end-of-day mode with a positive drawdown
C9_Witness ==
    /\ pf_pc = "stopped"
    /\ p.trailing_mode = "eod"
    /\ rets.current_drawdown > 0
    /\ rets.hwm > rets.current_value

\* C10: in every result the reported largest drawdown is greater than or
\* equal to the reported current drawdown.
C10_MaxAtLeastCurrent == rets.max_drawdown >= rets.current_drawdown

\* C10 witness: a result whose largest drawdown is above a positive current one
C10_Witness ==
    /\ pf_pc \in {"idle", "stopped"}
    /\ rets.current_drawdown > 0
    /\ rets.max_drawdown > rets.current_drawdown

\* C11: the reported largest drawdown never decreases, from one bar to the
\* next nor at stop().
C11_MaxDrawdownMonotone ==
    [][rets'.max_drawdown >= rets.max_drawdown]_vars

\* C11 witness: the run has stopped in end-of-day mode with the account back at
\* its high-water mark while a positive largest drawdown is still reported
C11_Witness ==
    /\ pf_pc = "stopped"
    /\ p.trailing_mode = "eod"
    /\ rets.current_drawdown = 0
    /\ rets.max_drawdown > 0

\* the drawdown of the most recently recorded breach of a result
LastBreachDrawdown(r) == r.breaches[Len(r.breaches)].drawdown

\* C12: at a bar a breach record is appended if and only if the bar's drawdown
\* is strictly greater than max_drawdown and either no breach was recorded
\* before or the drawdown is strictly greater than that of the most recently
\* recorded breach; nothing else changes the list.  Every recorded drawdown is
\* strictly greater than max_drawdown and the recorded drawdowns are strictly
\* increasing in list order.
C12_BreachLogNewWorstOnly ==
    [][/\ NextStep =>
            LET dd == rets'.current_drawdown
                newworst == /\ dd > p.max_drawdown
                            /\ \/ rets.breaches = <<>>
                               \/ dd > LastBreachDrawdown(rets)
            IN IF newworst
               THEN /\ Len(rets'.breaches) = Len(rets.breaches) + 1
                    /\ SubSeq(rets'.breaches, 1, Len(rets.breaches))
                          = rets.breaches
                    /\ LastBreachDrawdown(rets') = dd
               ELSE rets'.breaches = rets.breaches
       /\ ~NextStep => rets'.breaches = rets.breaches
       /\ \A i \in 1..Len(rets'.breaches) :
              /\ rets'.breaches[i].drawdown > p.max_drawdown
              /\ \A j \in 1..Len(rets'.breaches) :
                    i < j => rets'.breaches[i].drawdown
                                < rets'.breaches[j].drawdown]_vars

\* C12 witness: a bar over the limit whose drawdown does not exceed the one
\* recorded at an earlier bar has been processed without a new record
C12_Witness ==
    /\ pf_pc = "idle"
    /\ Len(rets.breaches) = 1
    /\ rets.current_drawdown > p.max_drawdown
    /\ rets.breaches[1].datetime[2] < pf_clock.len

\* C13: in intraday mode with a trail_stop_threshold configured, the result
\* after a bar reports trailing_frozen exactly when it did so before or the
\* bar's account value is at least starting_balance + trail_stop_threshold (so
\* exactly when some bar so far reached that level), and nothing but a bar
\* changes it; a frozen result reports hwm and frozen_hwm equal to
\* starting_balance + trail_stop_threshold, an unfrozen one frozen_hwm None.
C13_IntradayFreezeAtThreshold ==
    [][(p.trailing_mode = "intraday" /\ p.trail_stop_threshold # None) =>
          /\ NextStep =>
                LET level == Get(starting_balance)
                                + Get(p.trail_stop_threshold)
                IN /\ rets'.trailing_frozen
                        <=> (rets.trailing_frozen \/ current_value >= level)
                   /\ rets'.trailing_frozen = trailing_frozen'
                   /\ rets'.trailing_frozen =>
                        /\ rets'.hwm = level
                        /\ rets'.frozen_hwm = Some(level)
                   /\ ~rets'.trailing_frozen => rets'.frozen_hwm = None
          /\ ~NextStep =>
                /\ rets'.trailing_frozen = rets.trailing_frozen
                /\ rets'.frozen_hwm = rets.frozen_hwm
                /\ rets'.hwm = rets.hwm]_vars

\* C13 witness: an intraday monitor has frozen its mark at the threshold level
\* at a bar whose account value is above that level
C13_Witness ==
    /\ pf_pc = "idle"
    /\ p.trailing_mode = "intraday"
    /\ p.trail_stop_threshold # None
    /\ rets.trailing_frozen
    /\ rets.current_value > rets.hwm
    /\ rets.frozen_hwm = Some(rets.hwm)

\* the bar being processed is the first one of a new date for the analyzer
PF_DateChanged == pf_prev_date # None /\ pf_clock.date # Get(pf_prev_date)

\* C14: in end-of-day mode the update of the high-water mark made at a bar
\* whose date differs from the previous bar's is the update computed from the
\* account value of the previous bar (the one reported after that bar), not
\* from the value of the first bar of the new session.
C14_EodUpdateUsesPreviousBar ==
    [][(NextStep /\ p.trailing_mode = "eod" /\ PF_DateChanged) =>
          LET u == update_hwm(hwm, trailing_frozen, frozen_hwm,
                              rets.current_value, trail_target)
          IN /\ hwm' = u.hwm
             /\ trailing_frozen' = u.trailing_frozen
             /\ frozen_hwm' = u.frozen_hwm]_vars

\* C15: once the first snapshot has been seen, the high-water mark, as kept
\* and as reported, is greater than or equal to the starting balance
\* (configured or auto-detected) after every bar and after stop().
C15_HwmAtLeastStartingBalance ==
    (pf_pc \in {"idle", "stopped"} /\ pf_clock.len >= 1) =>
        /\ hwm >= Get(starting_balance)
        /\ rets.hwm >= Get(starting_balance)

\* ---- the two analyzers of one run compared, checked under SpecMon ----
\* the account value of the run's first snapshot, as the analyzers read it
FirstValue(m) ==
    IF ~m.fundmode THEN Get(mon_clock.first).value
    ELSE Get(mon_clock.first).fundvalue

C17_NonPositiveMaxDrawdownRejected ==
    p.max_drawdown <= 0 =>
        /\ pf_clock.len = 0
        /\ ~rets.breached
        /\ rets.breaches = <<>>

StopStep == pf_pc = "idle" /\ pf_pc' = "stopped"

\* the three fields _update_hwm writes, before and after a step
HwmFields == [hwm |-> hwm, trailing_frozen |-> trailing_frozen,
              frozen_hwm |-> frozen_hwm]

HwmFieldsAfter == [hwm |-> hwm', trailing_frozen |-> trailing_frozen',
                   frozen_hwm |-> frozen_hwm']

\* C29: in end-of-day mode next() makes one update of the high-water mark
\* (with its freeze check) at a bar whose date differs from the previous
\* bar's, and at every other bar, the first one included, leaves the
\* high-water mark and the frozen state as they were, whatever the account
\* value; stop() makes exactly one more update, after which the high-water
\* mark is frozen or not below the last account value.
C29_EodUpdateOnlyAtDateChange ==
    [][p.trailing_mode = "eod" =>
          /\ NextStep =>
                 HwmFieldsAfter
                    = (IF PF_DateChanged
                       THEN update_hwm(hwm, trailing_frozen, frozen_hwm,
                                       current_value, trail_target)
                       ELSE HwmFields)
          /\ StopStep =>
                 /\ HwmFieldsAfter
                       = update_hwm(hwm, trailing_frozen, frozen_hwm,
                                    current_value, trail_target)
                 /\ trailing_frozen' \/ hwm' >= current_value]_vars

\* C29 witness: in end-of-day mode a bar of an unchanged date has been
\* processed with the account value above the high-water mark and at the
\* trail target, and the high-water mark is neither raised nor frozen
C29_Witness ==
    /\ p.trailing_mode = "eod"
    /\ pf_pc = "idle"
    /\ pf_clock.len >= 2
    /\ current_value > hwm
    /\ trail_target # None
    /\ current_value >= Get(trail_target)
    /\ ~trailing_frozen
    /\ frozen_hwm = None

\* C30: for a positive max_drawdown and a run of at least one bar, the result
\* read after stop() agrees with the analyzer's freeze state: when the
\* high-water mark is frozen, also by the final update that stop() makes in
\* end-of-day mode, the result has trailing_frozen true and
\* frozen_hwm = hwm = starting_balance + trail_stop_threshold; when it is not
\* frozen, trailing_frozen is false and frozen_hwm is None.
C30_ResultAgreesWithFreezeState ==
    (pf_pc = "stopped" /\ pf_clock.len >= 1 /\ p.max_drawdown > 0) =>
        IF trailing_frozen
        THEN /\ rets.trailing_frozen
             /\ rets.frozen_hwm = trail_target
             /\ rets.hwm = Get(trail_target)
             /\ trail_target
                   = Some(Get(starting_balance) + Get(p.trail_stop_threshold))
        ELSE /\ ~rets.trailing_frozen
             /\ rets.frozen_hwm = None

\* C31: the breach log is append-only.  No step removes, reorders or changes
\* a recorded breach: the list after a step has the list before it as a
\* prefix and is at most one record longer, only next() makes it longer, and
\* breach_count equals its length.
C31_BreachLogAppendOnly ==
    [][/\ Len(rets'.breaches) >= Len(rets.breaches)
       /\ Len(rets'.breaches) <= Len(rets.breaches) + 1
       /\ SubSeq(rets'.breaches, 1, Len(rets.breaches)) = rets.breaches
       /\ Len(rets'.breaches) > Len(rets.breaches) => NextStep
       /\ rets.breach_count = Len(rets.breaches)
       /\ rets'.breach_count = Len(rets'.breaches)]_vars

\* C31 witness: the run has stopped with two records in the log, the first one
\* made at an earlier bar than the second and with a smaller drawdown
C31_Witness ==
    /\ pf_pc = "stopped"
    /\ Len(rets.breaches) = 2
    /\ rets.breach_count = 2
    /\ rets.breaches[1].datetime[2] < rets.breaches[2].datetime[2]
    /\ rets.breaches[1].drawdown < rets.breaches[2].drawdown

\* C32: after every bar and after stop(), in either trailing mode, the result
\* has breached = TRUE if and only if its largest drawdown is strictly greater
\* than max_drawdown.
C32_BreachedIffMaxDrawdownOverLimit ==
    pf_pc \in {"idle", "stopped"}
        => (rets.breached <=> rets.max_drawdown > p.max_drawdown)

\* C32 witness: the run has stopped with a largest drawdown equal to a
\* positive limit, reached at some bar, and no breach is reported
C32_Witness ==
    /\ pf_pc = "stopped"
    /\ p.max_drawdown > 0
    /\ rets.max_drawdown = p.max_drawdown
    /\ ~rets.breached

\* C33: after every bar and after stop(), whenever breached is TRUE the
\* drawdown of the last record of breaches equals the largest drawdown of the
\* result: every new worst point has its record.
C33_LastBreachIsMaxDrawdown ==
    (pf_pc \in {"idle", "stopped"} /\ rets.breached)
        => /\ rets.breaches # <<>>
           /\ LastBreachDrawdown(rets) = rets.max_drawdown

\* C33 witness: a bar has just set a new worst point above that of the first
\* breach, and the record appended for it carries the largest drawdown
C33_Witness ==
    /\ pf_pc = "idle"
    /\ rets.breached
    /\ Len(rets.breaches) = 2
    /\ rets.breaches[1].drawdown < rets.max_drawdown
    /\ LastBreachDrawdown(rets) = rets.max_drawdown
    /\ rets.current_drawdown = rets.max_drawdown

\* C34: with a positive max_drawdown, once the first snapshot has initialised
\* it the high-water mark never decreases from the end of one bar to the end
\* of the next, nor at stop(),
\* in either trailing mode and for every starting_balance and
\* trail_stop_threshold, the step of the freeze included.
C34_HwmNeverDecreases ==
    [][(/\ p.max_drawdown > 0
        /\ \/ NextStep /\ pf_clock.len >= 2
           \/ StopStep /\ pf_clock.len >= 1)
          => hwm' >= hwm]_vars

NewDate == s_clock.prev # None /\ s_clock.date # Get(s_clock.prev)

\* the order a forwarded buy / sell call hands to the broker
ForwardedOrder(c) ==
    [data |-> c.data, size |-> IF c.op = "buy" THEN c.size ELSE -c.size]

\* C3: while trading is blocked (and the bypass flag is off) a call of buy() or
\* sell() by the trading logic returns None and submits no order; while
\* trading is not blocked the call is forwarded unchanged: the order reaches
\* the broker and is returned.
C3_BlockedOrdersIntercepted ==
    [][last'.op \in {"buy", "sell"} =>
          IF trading_blocked /\ ~bypass_block
          THEN /\ ret' = None
               /\ orders_open' = orders_open
               /\ cmds' = <<>>
          ELSE /\ ret' = Some(ForwardedOrder(last'))
               /\ orders_open' = Append(orders_open, ForwardedOrder(last'))
               /\ cmds' = <<Cmd(last'.op, last'.data, last'.size)>>]_vars

\* C3 witness: a buy() made while blocked has returned None
C3_Witness ==
    /\ last.op = "buy"
    /\ trading_blocked
    /\ ret = None
    /\ cmds = <<>>

\* C4: when trading is not blocked, next() blocks it if and only if
\* day_start_value minus the account value is at least daily_loss_limit; and
\* nothing else ever blocks trading.
C4_BlockedIffLimitHit ==
    [][/\ (last'.op = "next" /\ ~trading_blocked)
            => (trading_blocked'
                  <=> day_start_value - broker_value >= sp.daily_loss_limit)
       /\ (~trading_blocked /\ trading_blocked')
            => /\ last'.op = "next"
               /\ day_start_value - broker_value >= sp.daily_loss_limit]_vars

\* C4 witness: on the first bar a loss exactly equal to a positive limit has
\* blocked trading
C4_Witness ==
    /\ s_clock.len = 1
    /\ last.op = "next"
    /\ trading_blocked
    /\ sp.daily_loss_limit > 0
    /\ day_start_value - broker_value = sp.daily_loss_limit

\* C5: when the trading logic of the first bar of a new calendar date starts,
\* notify_cashvalue has already set day_start_value to that bar's account value
\* and cleared the block.
C5_NewDayStartsUnblocked ==
    (s_pc = "notified" /\ NewDate)
        => (~trading_blocked /\ day_start_value = broker_value)

\* C5 witness: the trading logic of the first bar of a new date is about to
\* run, and trading was blocked when the previous date's last bar ended
C5_Witness ==
    /\ s_pc = "notified"
    /\ NewDate
    /\ s_clock.was_blocked
    /\ ~trading_blocked

\* C6: the block is only ever cleared by notify_cashvalue at a bar whose date
\* differs from the previous bar's date; at a bar of the same date (and at the
\* first bar) notify_cashvalue leaves the block and day_start_value alone.
C6_BlockedUntilDateChange ==
    [][/\ (trading_blocked /\ ~trading_blocked')
            => (last'.op = "notify_cashvalue" /\ NewDate)
       /\ (last'.op = "notify_cashvalue" /\ ~NewDate)
            => /\ trading_blocked' = trading_blocked
               /\ day_start_value' = day_start_value]_vars

\* C6 witness: a later bar of the date of the block has been processed, the
\* account value is back at the day's starting value, and trading is still
\* blocked
C6_Witness ==
    /\ s_pc = "post"
    /\ s_clock.len >= 2
    /\ ~NewDate
    /\ s_clock.was_blocked
    /\ trading_blocked
    /\ sp.daily_loss_limit > 0
    /\ broker_value >= day_start_value

\* the session-close timer has just fired
EodTimerFired == last.op = "notify_timer" /\ last.data = "eod_timer"

\* C7: whenever the session-close timer fires, an order closing the position is
\* submitted for every data feed whose position is not flat, also while the
\* loss governor blocks trading.
C7_ScheduledFlattenNeverDropped ==
    EodTimerFired =>
        \A d \in Datas :
            position[d] # 0 =>
                \E i \in 1..Len(cmds) :
                    /\ cmds[i].op \in {"buy", "sell"}
                    /\ cmds[i].data = d
                    /\ cmds[i].size = Abs(position[d])

\* the calls a firing of the session-close timer has to make, in order
ExpectedCancels(open) ==
    IF sp.cancel_open_orders
    THEN [i \in 1..Len(open) |-> Cmd("cancel", open[i].data, open[i].size)]
    ELSE <<>>

IsOpenPosition(d) == position[d] # 0

ExpectedCloses ==
    LET nonflat == SelectSeq(datas, IsOpenPosition)
    IN [i \in 1..Len(nonflat) |-> Cmd("close", nonflat[i], Abs(position[nonflat[i]]))]

IsCall(c) == c.op \in {"cancel", "close"}

\* C8: each firing of the closer's own timer first cancels every open order if
\* and only if cancel_open_orders is set, then calls close() once for every
\* data feed whose position is not flat and for no flat one, whatever the
\* account value; with no open order and no position it issues no command;
\* the firing of any other timer issues none.
C8_TimerCancelsThenCloses ==
    [][last'.op = "notify_timer" =>
          IF last'.data = "eod_timer"
          THEN /\ SelectSeq(cmds', IsCall)
                    = ExpectedCancels(orders_open) \o ExpectedCloses
               /\ (orders_open = <<>> /\ \A d \in Datas : position[d] = 0)
                    => (cmds' = <<>> /\ orders_open' = <<>>)
          ELSE cmds' = <<>> /\ orders_open' = orders_open]_vars

\* C8 witness: the session-close timer has fired with one data feed holding a
\* position and another one flat, and close() was called for the first only
C8_Witness ==
    /\ EodTimerFired
    /\ \E d \in Datas : position[d] # 0
    /\ \E d \in Datas : position[d] = 0
    /\ \E i \in 1..Len(cmds) : cmds[i].op = "close"

\* C18: a governor whose daily_loss_limit is zero or negative is rejected at
\* configuration time: it never reaches the running state, so none of its
\* per-bar handlers runs, it never blocks trading and never flattens a
\* position.
C18_NonPositiveLimitRejected ==
    sp.daily_loss_limit <= 0 =>
        /\ last.op \notin {"notify_cashvalue", "next"}
        /\ ~trading_blocked

\* next() has just set the block and returned: the step of the breach
\* response, none of whose close() calls raised
BreachStep ==
    /\ last'.op = "next"
    /\ last'.data # "raised"
    /\ ~trading_blocked
    /\ trading_blocked'

\* the order that closes the position of data feed d
ClosingOrder(d) == [data |-> d, size |-> 0 - position[d]]

\* C26: at the bar where the loss limit is hit, after the block has been set,
\* an order closing the position is submitted to the broker for every data
\* feed whose position is not flat, and no order for a flat one; none of these
\* orders is rejected by the interception of buy() / sell().
C26_FlattenBypassesBlock ==
    [][BreachStep =>
          \A d \in Datas :
              IF position[d] # 0
              THEN /\ \E i \in 1..Len(cmds') :
                          /\ cmds'[i].op = (IF position[d] > 0 THEN "sell" ELSE "buy")
                          /\ cmds'[i].data = d
                          /\ cmds'[i].size = Abs(position[d])
                   /\ \E i \in 1..Len(orders_open') :
                          orders_open'[i] = ClosingOrder(d)
                   /\ ret' # None
              ELSE \A i \in 1..Len(cmds') :
                       cmds'[i].op \in {"buy", "sell", "close"}
                           => cmds'[i].data # d]_vars

\* C26 witness: next() has just blocked trading with one data feed holding a
\* position and the other one flat, and the broker holds the closing order
C26_Witness ==
    /\ last.op = "next"
    /\ trading_blocked
    /\ \E d \in Datas : position[d] = 0
    /\ \E d \in Datas :
           /\ position[d] # 0
           /\ \E i \in 1..Len(orders_open) : orders_open[i] = ClosingOrder(d)
           /\ \E i \in 1..Len(cmds) : cmds[i].op = "close" /\ cmds[i].data = d

IsCancel(c) == c.op = "cancel"

\* the closing orders of the flatten, in the order of self.datas
FlattenOrders ==
    LET nonflat == SelectSeq(datas, IsOpenPosition)
    IN [i \in 1..Len(nonflat) |-> ClosingOrder(nonflat[i])]

\* C27: at the step that blocks trading the open orders are cancelled if and
\* only if cancel_open_on_breach is set, and every cancel is issued before
\* the first close of the flatten: the closing orders just issued stay open
\* at the broker, and with cancel_open_on_breach off no cancel is issued and
\* the orders that were open stay open.
C27_CancelBeforeFlatten ==
    [][BreachStep =>
          /\ SelectSeq(cmds', IsCancel)
                = (IF sp.cancel_open_on_breach
                   THEN [i \in 1..Len(orders_open) |->
                            Cmd("cancel", orders_open[i].data, orders_open[i].size)]
                   ELSE <<>>)
          /\ \A i, j \in 1..Len(cmds') :
                 (cmds'[i].op = "cancel" /\ cmds'[j].op # "cancel") => i < j
          /\ orders_open'
                = (IF sp.cancel_open_on_breach THEN <<>> ELSE orders_open)
                  \o FlattenOrders]_vars

\* C27 witness: next() has just blocked trading, cancelled an open order and
\* then closed a position, and the closing order is the only one left open
C27_Witness ==
    /\ last.op = "next"
    /\ trading_blocked
    /\ sp.cancel_open_on_breach
    /\ Len(cmds) >= 2
    /\ cmds[1].op = "cancel"
    /\ cmds[2].op = "close"
    /\ Len(orders_open) = 1
    /\ orders_open[1] = ClosingOrder(cmds[2].data)

\* C28: on a bar at which the loss of the day has reached a positive
\* daily_loss_limit, the loss check comes before every trading decision of
\* the bar: no buy() or sell() of the trading logic made during that bar's
\* next() is accepted.
C28_NoOrderAcceptedOnBreachBar ==
    (/\ s_pc \in InNext
     /\ s_clock.len >= 1
     /\ sp.daily_loss_limit > 0
     /\ day_start_value - broker_value >= sp.daily_loss_limit
     /\ last.op \in {"buy", "sell"})
        => ret = None

\* C35: the breach response is issued at most once per run of bars of one
\* date.  next() cancels or closes only at the bar at which it sets the
\* block: when the previous bar of the same date ended blocked, next() issues
\* no command, whatever the positions and the loss.
C35_BreachResponseOncePerDate ==
    (last.op = "next" /\ cmds # <<>>)
        => /\ trading_blocked
           /\ s_clock.was_blocked => NewDate

\* C35 witness: next() has run on a later bar of the date of the block, with a
\* position still open and the loss at or over the limit, and issued nothing
C35_Witness ==
    /\ last.op = "next"
    /\ s_clock.len >= 2
    /\ ~NewDate
    /\ s_clock.was_blocked
    /\ trading_blocked
    /\ sp.daily_loss_limit > 0
    /\ day_start_value - broker_value >= sp.daily_loss_limit
    /\ \E d \in Datas : position[d] # 0
    /\ cmds = <<>>

\* C36: with a positive daily_loss_limit trading is never blocked on the
\* first bar of a new date: while that bar's next() runs day_start_value is
\* the bar's own account value, so the measured loss is 0.  A block newly set
\* by next() rests on a loss of at least the limit measured from
\* day_start_value, which on the first date is the value at start().
C36_NoBlockOnFirstBarOfDate ==
    (sp.daily_loss_limit > 0 /\ s_pc \in InNext) =>
        /\ NewDate => (~trading_blocked /\ day_start_value = broker_value)
        /\ s_clock.date = 1 => day_start_value = StartingCash
        /\ (last.op = "next" /\ trading_blocked /\ ~s_clock.was_blocked)
              => (~NewDate
                  /\ day_start_value - broker_value >= sp.daily_loss_limit)

\* C36 witness: the previous date ended blocked on a loss, the first bar of the
\* new date opens at that lower value, and next() has left trading unblocked
C36_Witness ==
    /\ sp.daily_loss_limit > 0
    /\ s_pc = "post"
    /\ last.op = "next"
    /\ NewDate
    /\ s_clock.was_blocked
    /\ broker_value < StartingCash
    /\ day_start_value = broker_value
    /\ ~trading_blocked

\* C40: _bypass_block is set only inside _flatten_all_positions and is off
\* again when it is left, also when a close() call raises: between two
\* callbacks of the host and after a run ended by such an exception the flag
\* is off, and a buy() or sell() the trading logic makes while blocked returns
\* None and submits nothing.
C40_BypassOffBetweenCallbacks ==
    /\ ~bypass_block
    /\ (last.op \in {"buy", "sell"} /\ trading_blocked)
          => (ret = None /\ cmds = <<>>)

\* C40 witness: a close() call of the flatten has raised after the block was
\* set, and the flag is off
C40_Witness ==
    /\ s_pc = "raised"
    /\ last.op = "next"
    /\ last.data = "raised"
    /\ trading_blocked
    /\ ~bypass_block

(***************************************************************************)
(* Properties of ConsistencyAnalyzer, checked under SpecCA                 *)
(***************************************************************************)
\* C19: when the net P&L of all closed trades is zero or negative, stop()
\* yields violations = [] and consistent = TRUE, whatever max_day_pct is and
\* however large a single profitable day is.
C19_NoViolationsWhenNotProfitable ==
    (ca_pc = "stopped" /\ ca_clock.closed_pnl <= 0) =>
        /\ ca_rets.violations = <<>>
        /\ ca_rets.consistent

\* C19 witness: a run with max_day_pct = 0, a profitable day and a net P&L of
\* zero or less has stopped
C19_Witness ==
    /\ ca_pc = "stopped"
    /\ ca_clock.closed_pnl <= 0
    /\ ca_p.max_day_pct = 0
    /\ \E i \in 1..Len(daily_pnl) : daily_pnl[i].pnl > 0

\* the violations a positive net P&L calls for: one per day with pnl > 0 and
\* 100 * pnl / net strictly greater than max_day_pct
ExpectedViolations(net) ==
    {[date |-> daily_pnl[i].date, pnl |-> daily_pnl[i].pnl,
      pct |-> [num |-> 100 * daily_pnl[i].pnl, den |-> net]] :
        i \in {j \in 1..Len(daily_pnl) :
                 /\ daily_pnl[j].pnl > 0
                 /\ 100 * daily_pnl[j].pnl > ca_p.max_day_pct * net}}

\* C20: when the net P&L of all closed trades is positive, the violations
\* produced by stop() are exactly the days with pnl > 0 and 100 * pnl / net_pnl
\* strictly greater than max_day_pct, each listed once with its date, pnl and
\* pct, and consistent is TRUE if and only if the list is empty; so with
\* max_day_pct = 0 every profitable day is a violation, and two days of equal
\* positive P&L with max_day_pct = 40 are both violations.
C20_ViolationsExactlyDaysOverThreshold ==
    (ca_pc = "stopped" /\ ca_clock.closed_pnl > 0) =>
        LET v == ca_rets.violations
            net == ca_clock.closed_pnl
        IN /\ {v[i] : i \in 1..Len(v)} = ExpectedViolations(net)
           /\ Len(v) = Cardinality(ExpectedViolations(net))
           /\ ca_rets.consistent <=> (v = <<>>)
           /\ ca_p.max_day_pct = 0 =>
                \A i \in 1..Len(daily_pnl) :
                    daily_pnl[i].pnl > 0 =>
                        \E k \in 1..Len(v) : v[k].date = daily_pnl[i].date
           /\ (/\ ca_p.max_day_pct = 40
               /\ Len(daily_pnl) = 2
               /\ daily_pnl[1].pnl = daily_pnl[2].pnl) => Len(v) = 2

\* C20 witness: a profitable run with max_day_pct = 40 has stopped with one
\* profitable day listed as a violation and another one not listed
C20_Witness ==
    /\ ca_pc = "stopped"
    /\ ca_clock.closed_pnl > 0
    /\ ca_p.max_day_pct = 40
    /\ Len(ca_rets.violations) = 1
    /\ \E i \in 1..Len(daily_pnl) :
          /\ daily_pnl[i].pnl > 0
          /\ daily_pnl[i].date # ca_rets.violations[1].date

\* the dates listed in the violations of the result
ViolationDates == {ca_rets.violations[k].date : k \in 1..Len(ca_rets.violations)}

RECURSIVE DailySum(_, _)
\* the sum of the daily values of a dict at a set of positions
DailySum(d, S) ==
    IF S = {} THEN 0
    ELSE LET i == CHOOSE j \in S : TRUE
         IN d[i].pnl + DailySum(d, S \ {i})

\* C22: after stop(), net_pnl equals the sum of all daily_pnl values (which is
\* the total of the closed trades), total_profit the sum of the positive daily
\* values, total_loss the sum of the negative ones, and
\* total_profit + total_loss = net_pnl.
C22_TotalsAreSumsOfDailyPnl ==
    ca_pc = "stopped" =>
        LET d == ca_rets.daily_pnl
            all == 1..Len(d)
        IN /\ d = daily_pnl
           /\ ca_rets.net_pnl = DailySum(d, all)
           /\ ca_rets.net_pnl = ca_clock.closed_pnl
           /\ ca_rets.total_profit = DailySum(d, {i \in all : d[i].pnl > 0})
           /\ ca_rets.total_loss = DailySum(d, {i \in all : d[i].pnl < 0})
           /\ ca_rets.total_profit + ca_rets.total_loss = ca_rets.net_pnl

\* C22 witness: a run with two profitable days and a losing day has stopped
C22_Witness ==
    /\ ca_pc = "stopped"
    /\ Len(ca_rets.daily_pnl) = 3
    /\ ca_rets.total_loss < 0
    /\ ca_rets.total_profit > MaxPnl

\* C23: when no closed trade was ever notified, stop() yields daily_pnl = {},
\* consistent = TRUE, best_day = None and violations = [], with net_pnl,
\* total_profit and total_loss left at 0.
C23_NoTradesDefaults ==
    (ca_pc = "stopped" /\ ca_clock.closed = 0) =>
        /\ ca_rets.daily_pnl = <<>>
        /\ ca_rets.consistent
        /\ ca_rets.best_day = None
        /\ ca_rets.violations = <<>>
        /\ ca_rets.net_pnl = 0
        /\ ca_rets.total_profit = 0
        /\ ca_rets.total_loss = 0

\* C23 witness: a run in which trades were notified but none of them closed
\* has stopped
C23_Witness ==
    /\ ca_pc = "stopped"
    /\ ca_clock.closed = 0
    /\ ca_clock.trades >= 2
    /\ ca_rets.daily_pnl = <<>>

\* C24: after stop() with at least one closed trade, best_day names a date
\* present in daily_pnl, with that date's P&L, which is the maximum of all
\* daily values; best_day.pct equals 100 * pnl / net_pnl when the net P&L is
\* positive and 0 otherwise.
C24_BestDayIsMaximalDay ==
    (ca_pc = "stopped" /\ ca_clock.closed >= 1) =>
        /\ ca_rets.best_day # None
        /\ LET b == Get(ca_rets.best_day)
               d == ca_rets.daily_pnl
               net == ca_clock.closed_pnl
           IN /\ \E i \in 1..Len(d) : d[i].date = b.date /\ d[i].pnl = b.pnl
              /\ \A j \in 1..Len(d) : d[j].pnl <= b.pnl
              /\ b.pct.den # 0
              /\ IF net > 0
                 THEN b.pct.num * net = 100 * b.pnl * b.pct.den
                 ELSE b.pct.num = 0

\* C24 witness: a profitable run of several days has stopped with a best day
\* that is not the last one
C24_Witness ==
    /\ ca_pc = "stopped"
    /\ ca_clock.closed_pnl > 0
    /\ Len(ca_rets.daily_pnl) >= 2
    /\ ca_rets.best_day # None
    /\ Get(ca_rets.best_day).date
         # ca_rets.daily_pnl[Len(ca_rets.daily_pnl)].date
    /\ Get(ca_rets.best_day).pct.num > 0

\* the dates a trade notification may carry
Days == 1..MaxDays

\* C38: a notification for a closed trade adds the trade's net P&L to the
\* daily_pnl entry of the current bar's date, starting the entry from 0 when
\* there is none, and leaves every other date's entry as it was; a
\* notification for a trade that is not closed changes nothing; no step
\* removes an entry, so the set of dates only grows.
C38_NotifyTradeAccumulates ==
    [][/\ Keys(daily_pnl) \subseteq Keys(daily_pnl')
       /\ ca_last'.op = "notify_trade" =>
            IF ca_last'.isclosed
            THEN LET date == ca_clock'.date
                 IN /\ Keys(daily_pnl') = Keys(daily_pnl) \cup {date}
                    /\ Len(daily_pnl') = Cardinality(Keys(daily_pnl'))
                    /\ DictGet(daily_pnl', date)
                          = DictGet(daily_pnl, date) + ca_last'.pnlcomm
                    /\ \A d \in Days \ {date} :
                          DictGet(daily_pnl', d) = DictGet(daily_pnl, d)
            ELSE daily_pnl' = daily_pnl]_vars

\* C38 witness: a closed trade with a non-zero P&L has just been added to the
\* entry an earlier trade of the same date had created, next to the entry of
\* another date
C38_Witness ==
    /\ ca_last.op = "notify_trade"
    /\ ca_last.isclosed
    /\ ca_last.pnlcomm # 0
    /\ Len(daily_pnl) = 2
    /\ ca_clock.closed = 3
    /\ DictGet(daily_pnl, ca_clock.date) # ca_last.pnlcomm

\* C39: whenever stop() reports a non-empty list of violations, the date of
\* best_day is one of the violating dates and no violation has a percentage
\* greater than that of best_day.
C39_BestDayAmongViolations ==
    (ca_pc = "stopped" /\ ca_rets.violations # <<>>) =>
        /\ ca_rets.best_day # None
        /\ LET b == Get(ca_rets.best_day)
           IN /\ b.date \in ViolationDates
              /\ b.pct.den > 0
              /\ \A k \in 1..Len(ca_rets.violations) :
                    LET v == ca_rets.violations[k]
                    IN /\ v.pct.den > 0
                       /\ v.pct.num * b.pct.den <= b.pct.num * v.pct.den

\* C39 witness: a run has stopped with two violating days of different
\* percentages, the first of which is not the best day
C39_Witness ==
    /\ ca_pc = "stopped"
    /\ Len(ca_rets.violations) = 2
    /\ ca_rets.violations[1].pnl < ca_rets.violations[2].pnl
    /\ Get(ca_rets.best_day).date = ca_rets.violations[2].date

(***************************************************************************)
(* Properties of MaxContractsSizer, checked under SpecMC                   *)
(***************************************************************************)
\* C25: when every order is sized by the sizer, the open position of a data
\* feed never rises above +max_contracts nor falls below -max_contracts, for
\* any sequence of buy and sell orders and fills starting from a flat
\* position.
C25_PositionWithinMaxContracts ==
    \A d \in Datas :
        /\ mc_position[d] <= mc_p.max_contracts
        /\ mc_position[d] >= 0 - mc_p.max_contracts

====
